---- MODULE Spec2Model ----
(***************************************************************************)
(* Strava dashboard: token renewal, paginated fetch, normalisation         *)
(* (etl.py) and the Streamlit script that loads, caches and filters the    *)
(* table (app.py).                                                         *)
(*                                                                         *)
(* Numbers are exact rationals [num, den] (den > 0, lowest terms); the     *)
(* program's float64 values are abstracted to the rationals they           *)
(* approximate.  A DataFrame is [cols, rows]; a cell is a record: NA, a    *)
(* rational, [str |-> s], a timestamp [y, m, d] or a period [py, pm].      *)
(***************************************************************************)
EXTENDS Integers, Sequences, FiniteSets, TLC

\* ---------------------------------------------------------------- bounds
\* largest "Máx páginas" input tried (the widget allows 1..50)
MaxPagesCap == 3
\* largest "Atividades por página" input tried (the widget allows 10..200)
MaxPerPage == 1
\* script runs in one session
MaxRuns == 2
\* raw records in one normaliser input
MaxActs == 2

\* st.cache_data(ttl=3600), seconds
TTL == 3600

\* ------------------------------------------------------------- rationals
Abs(x) == IF x < 0 THEN -x ELSE x

RECURSIVE Gcd(_, _)
Gcd(a, b) == IF b = 0 THEN a ELSE Gcd(b, a % b)

\* n/d in lowest terms with a positive denominator (d # 0)
Rat(n, d) ==
  LET g == Gcd(Abs(n), Abs(d))
      s == IF d < 0 THEN -1 ELSE 1
  IN  [num |-> (s * n) \div g, den |-> (s * d) \div g]

RatOfInt(n) == [num |-> n, den |-> 1]
RatDiv(a, b) == Rat(a.num * b.den, a.den * b.num)
RatMul(a, b) == Rat(a.num * b.num, a.den * b.den)
RatGtZero(a) == a.num > 0
RatIsZero(a) == a.num = 0
RatAdd(a, b) == Rat(a.num * b.den + b.num * a.den, a.den * b.den)
RatLess(a, b) == a.num * b.den < b.num * a.den

\* round(x, 1): nearest multiple of 1/10, ties to the even one
\* (numpy/pandas round, Series.round(1))
RoundHalfEven1(a) ==
  LET p == 10 * a.num
      q == a.den
      f == p \div q
      r == p % q
      t == IF 2 * r < q THEN f
           ELSE IF 2 * r > q THEN f + 1
           ELSE IF f % 2 = 0 THEN f ELSE f + 1
  IN  Rat(t, 10)

\* ----------------------------------------------------------------- cells
NA == [na |-> TRUE]
IsNA(c) == DOMAIN c = {"na"}
IsStr(c) == DOMAIN c = {"str"}
IsNum(c) == DOMAIN c = {"num", "den"}
Str(s) == [str |-> s]

\* dict.get(key, default) on a raw record (a function from its keys)
Get(act, key, default) == IF key \in DOMAIN act THEN act[key] ELSE default

\* pd.to_datetime on the timestamp strings the inputs use; "n/a" does not parse
Parseable(s) == s \in {"2024-01-01T06:00:00", "2024-02-10T07:30:00"}
ParseTimestamp(s) ==
  CASE s = "2024-01-01T06:00:00" -> [y |-> 2024, m |-> 1, d |-> 1]
    [] s = "2024-02-10T07:30:00" -> [y |-> 2024, m |-> 2, d |-> 10]

\* Series.dt.to_period("M")
ToPeriodM(c) == IF IsNA(c) THEN NA ELSE [py |-> c.y, pm |-> c.m]

RECURSIVE SeqsUpTo(_, _)
\* all sequences over S of length 0..n
SeqsUpTo(S, n) ==
  IF n = 0 THEN {<<>>}
  ELSE LET shorter == SeqsUpTo(S, n - 1)
       IN  shorter \cup {Append(s, x) : s \in {t \in shorter : Len(t) = n - 1}, x \in S}

\* -------------------------------------------------------------- tables
\* pd.DataFrame(): no columns, no rows
EmptyDF == [cols |-> {}, rows |-> <<>>]
\* DataFrame.empty
IsEmptyDF(df) == df.rows = <<>> \/ df.cols = {}

WithCol(row, k, v) == [x \in DOMAIN row \cup {k} |-> IF x = k THEN v ELSE row[x]]
DropCol(row, k) == [x \in DOMAIN row \ {k} |-> row[x]]

Inf == [inf |-> TRUE]
IsInf(c) == DOMAIN c = {"inf"}
\* float division of two cells: x/0 is inf, 0/0 and anything with NA is NaN
CellDiv(a, b) ==
  IF IsNA(a) \/ IsNA(b) THEN NA
  ELSE IF RatIsZero(b) THEN (IF RatIsZero(a) THEN NA ELSE Inf)
  ELSE RatDiv(a, b)
\* Series.round(1)
CellRound1(c) == IF IsNum(c) THEN RoundHalfEven1(c) ELSE c
\* Series > 0 (False on NaN)
CellGtZero(c) == IsInf(c) \/ (IsNum(c) /\ RatGtZero(c))

\* ------------------------------------------------- transform_activities
NumCell(act, key) == RatOfInt(Get(act, key, 0))

\* pd.to_datetime(act.get("start_date_local")): None stays null; a string
\* that is no timestamp raises (errors="raise" is the default)
RawDateRaises(act) ==
  "start_date_local" \in DOMAIN act /\ ~Parseable(act["start_date_local"])
RawDate(act) ==
  IF "start_date_local" \in DOMAIN act /\ Parseable(act["start_date_local"])
  THEN ParseTimestamp(act["start_date_local"])
  ELSE NA

\* the dictionary appended for one activity
RawRecordRow(act) ==
  [id            |-> IF "id" \in DOMAIN act THEN RatOfInt(act["id"]) ELSE NA,
   name          |-> IF "name" \in DOMAIN act THEN Str(act["name"]) ELSE NA,
   type          |-> IF "type" \in DOMAIN act THEN Str(act["type"]) ELSE NA,
   date          |-> RawDate(act),
   distance_km   |-> RatDiv(NumCell(act, "distance"), RatOfInt(1000)),
   duration_min  |-> RatDiv(NumCell(act, "moving_time"), RatOfInt(60)),
   elevation_m   |-> NumCell(act, "total_elevation_gain"),
   avg_speed_kmh |-> RatMul(NumCell(act, "average_speed"), Rat(36, 10)),
   max_speed_kmh |-> RatMul(NumCell(act, "max_speed"), Rat(36, 10)),
   calories      |-> NumCell(act, "calories"),
   kudos         |-> NumCell(act, "kudos_count"),
   polyline      |-> NA]

\* Series.replace({0: pd.NA})
ZeroToNA(c) == IF IsNum(c) /\ RatIsZero(c) THEN NA ELSE c

\* the pace taken from the distance as it is stored, rounded
PaceFromRounded(row) ==
  CellDiv(row.duration_min, ZeroToNA(CellRound1(row.distance_km)))
\* df["pace_min_km"] = df["duration_min"] / df["distance_km"].replace({0: pd.NA})
PaceOf(row) == CellDiv(row.duration_min, ZeroToNA(row.distance_km))

\* pace first, then the two roundings and the date buckets
DeriveRow(row) ==
  LET pace == PaceOf(row)
  IN  [x \in DOMAIN row \cup {"pace_min_km", "date_only", "month_year"} |->
         CASE x = "pace_min_km" -> CellRound1(pace)
           [] x = "distance_km" -> CellRound1(row.distance_km)
           [] x = "date_only"   -> row.date
           [] x = "month_year"  -> ToPeriodM(row.date)
           [] OTHER             -> row[x]]

TransformCols ==
  {"id", "name", "type", "date", "distance_km", "duration_min", "elevation_m",
   "avg_speed_kmh", "max_speed_kmh", "calories", "kudos", "polyline",
   "pace_min_km", "date_only", "month_year"}

\* The call raises when a start_date_local does not parse, and when no record
\* has one: the date column is then all None (dtype object) and .dt fails.
TransformRaises(activities) ==
  \/ \E i \in 1..Len(activities) : RawDateRaises(activities[i])
  \/ \A i \in 1..Len(activities) : IsNA(RawDate(activities[i]))

\* [raised, df]: the returned table, or raised = TRUE when the call raises
TransformActivities(activities) ==
  IF activities = <<>> THEN [raised |-> FALSE, df |-> EmptyDF]
  ELSE IF TransformRaises(activities) THEN [raised |-> TRUE, df |-> EmptyDF]
  ELSE [raised |-> FALSE,
        df |-> [cols |-> TransformCols,
                rows |-> [i \in 1..Len(activities) |->
                            DeriveRow(RawRecordRow(activities[i]))]]]

\* ------------------------------------------- app.py: column treatment
FirstIn(candidates, cols) ==
  LET hits == {i \in 1..Len(candidates) : candidates[i] \in cols}
  IN  IF hits = {} THEN "none"
      ELSE candidates[CHOOSE i \in hits : \A j \in hits : i <= j]

\* for col in ["date", "start_date", "start_date_local"]
DateCol(cols) == FirstIn(<<"date", "start_date", "start_date_local">>, cols)
\* if "distance_km" not in df.columns: for col in ["distance", "distance_km"]
DistanceCol(cols) ==
  IF "distance_km" \in cols THEN "distance_km"
  ELSE FirstIn(<<"distance", "distance_km">>, cols)
\* if "duration_min" not in df.columns: for col in [moving_time, elapsed_time, duration]
DurationCol(cols) ==
  IF "duration_min" \in cols THEN "duration_min"
  ELSE FirstIn(<<"moving_time", "elapsed_time", "duration">>, cols)
\* if "type" not in df.columns: for col in ["sport_type", "type", "activity_type"]
TypeCol(cols) ==
  IF "type" \in cols THEN "type"
  ELSE FirstIn(<<"sport_type", "type", "activity_type">>, cols)

\* pd.to_datetime(..., errors="coerce")
ToDatetimeCoerce(c) ==
  IF IsStr(c) THEN (IF Parseable(c.str) THEN ParseTimestamp(c.str) ELSE NA) ELSE c
\* pd.to_numeric(..., errors="coerce")
ToNumericCoerce(c) == IF IsNum(c) \/ IsInf(c) THEN c ELSE NA

TreatRow(row, cols) ==
  LET dc == DateCol(cols)
      r1 == WithCol(DropCol(row, dc), "date", ToDatetimeCoerce(row[dc]))
      r2 == IF DistanceCol(cols) = "distance"
            THEN WithCol(r1, "distance_km",
                         CellDiv(ToNumericCoerce(row["distance"]), RatOfInt(1000)))
            ELSE r1
      r3 == IF DurationCol(cols) \in {"moving_time", "elapsed_time", "duration"}
            THEN WithCol(r2, "duration_min",
                         CellDiv(ToNumericCoerce(row[DurationCol(cols)]), RatOfInt(60)))
            ELSE r2
  IN  IF TypeCol(cols) \in {"sport_type", "activity_type"}
      THEN WithCol(r3, "type", row[TypeCol(cols)])
      ELSE r3

\* dropna(subset=["date"]), then the > 0 filters on the columns that exist
KeepRow(row) ==
  /\ ~IsNA(row["date"])
  /\ "distance_km" \in DOMAIN row => CellGtZero(row["distance_km"])
  /\ "duration_min" \in DOMAIN row => CellGtZero(row["duration_min"])

TreatedCols(cols) ==
  ((cols \ {DateCol(cols)}) \cup {"date"})
    \cup (IF DistanceCol(cols) = "none" THEN {} ELSE {"distance_km"})
    \cup (IF DurationCol(cols) = "none" THEN {} ELSE {"duration_min"})
    \cup (IF TypeCol(cols) = "none" THEN {} ELSE {"type"})

\* The script from "if df.empty" to the second st.stop(): the table handed
\* to the filters, KPIs and charts, or the place the script stopped.
AppTable(df) ==
  IF IsEmptyDF(df) THEN [status |-> "stopped_empty", df |-> EmptyDF]
  ELSE IF DateCol(df.cols) = "none" THEN [status |-> "stopped_no_date", df |-> EmptyDF]
  ELSE LET treated == [i \in 1..Len(df.rows) |-> TreatRow(df.rows[i], df.cols)]
           kept    == SelectSeq(treated, KeepRow)
       IN  IF kept = <<>> THEN [status |-> "stopped_no_valid", df |-> EmptyDF]
           ELSE [status |-> "table",
                 df |-> [cols |-> TreatedCols(df.cols), rows |-> kept]]

\* --------------------------------------------- etl.py: chart helpers
\* What a helper call comes to: "none" (returns None), "placeholder" (an
\* empty figure with a note), "figure", or "raises" (KeyError / ValueError
\* on a column the table lacks).
\* if df.empty: None; sort_values("date"); df_sorted["distance_km"].cumsum()
CreateDistanceOverTime(t) ==
  IF IsEmptyDF(t) THEN "none"
  ELSE IF {"date", "distance_km"} \subseteq t.cols THEN "figure"
  ELSE "raises"

\* if df.empty: None; df["type"].value_counts()
CreateActivityTypePie(t) ==
  IF IsEmptyDF(t) THEN "none"
  ELSE IF "type" \in t.cols THEN "figure"
  ELSE "raises"

\* if df.empty: None; df[df["distance_km"] > 0].sort_values("date"); None
\* when no row is left; px.scatter with y="pace_min_km" and
\* hover_data=["name", "distance_km", "duration_min"]
CreatePaceTrend(t) ==
  IF IsEmptyDF(t) THEN "none"
  ELSE IF ~({"distance_km", "date"} \subseteq t.cols) THEN "raises"
  ELSE IF \A i \in 1..Len(t.rows) : ~CellGtZero(t.rows[i]["distance_km"]) THEN "none"
  ELSE IF {"pace_min_km", "name", "duration_min"} \subseteq t.cols THEN "figure"
  ELSE "raises"

\* if df.empty: None; df.groupby("month_year").agg({"distance_km": "sum",
\* "duration_min": "sum", "type": "count"})
CreateMonthlyStats(t) ==
  IF IsEmptyDF(t) THEN "none"
  ELSE IF {"month_year", "distance_km", "duration_min", "type"} \subseteq t.cols
       THEN "figure"
  ELSE "raises"

\* --------------------------------------------- app.py: helper functions
\* format_pace_minutes: "N/A" on NaN and on 0, else round(pace, 1) as M:SS
FormatPaceMinutes(c) ==
  IF ~IsNum(c) \/ RatIsZero(c) THEN Str("N/A")
  ELSE LET p == RoundHalfEven1(c)
           mins == p.num \div p.den
       IN  [mins |-> mins, secs |-> ((p.num % p.den) * 60) \div p.den]

\* the thresholds written with <= : a boundary distance stays in the lower
\* category
CategorizeInclusive(distance_km) ==
  IF ~RatLess(RatOfInt(5), distance_km) THEN "Treino leve (< 5km)"
  ELSE IF ~RatLess(RatOfInt(10), distance_km) THEN "Curta (5-10km)"
  ELSE IF ~RatLess(RatOfInt(21), distance_km) THEN "Médio (10-21km)"
  ELSE "Meia maratona (> 21km)"
\* categorize_distance: if < 5 / elif < 10 / elif < 21 / else
CategorizeDistance(distance_km) ==
  IF RatLess(distance_km, RatOfInt(5)) THEN "Treino leve (< 5km)"
  ELSE IF RatLess(distance_km, RatOfInt(10)) THEN "Curta (5-10km)"
  ELSE IF RatLess(distance_km, RatOfInt(21)) THEN "Médio (10-21km)"
  ELSE "Meia maratona (> 21km)"

\* the group keys in the order groupby sorts them (code-point order)
CategoryOrder ==
  <<"Curta (5-10km)", "Meia maratona (> 21km)", "Médio (10-21km)",
    "Treino leve (< 5km)">>

\* pd.to_numeric(..., errors="coerce").fillna(0)
NumericOrZero(c) == IF IsNum(c) THEN c ELSE RatOfInt(0)

\* for col in ["duration_min", "moving_time", "elapsed_time"]
ChartDurationCol(cols) ==
  FirstIn(<<"duration_min", "moving_time", "elapsed_time">>, cols)

\* total_runs_by_km: placeholders for an empty table and for a table with
\* no duration column; px.scatter(x="distance_km") raises without the column
TotalRunsByKm(t) ==
  IF IsEmptyDF(t) THEN "placeholder"
  ELSE IF ChartDurationCol(t.cols) = "none" THEN "placeholder"
  ELSE IF "distance_km" \in t.cols THEN "figure"
  ELSE "raises"

\* the category and the pace pace_by_category gives one row: the lambda of
\* df_in.apply, to_numeric, round(1)
CategoryRow(row, durCol) ==
  LET dist == NumericOrZero(row["distance_km"])
      dur  == NumericOrZero(row[durCol])
  IN  [category    |-> CategorizeDistance(dist),
       pace_min_km |-> IF RatGtZero(dist) THEN CellRound1(RatDiv(dur, dist))
                       ELSE NA]

RECURSIVE SumPaces(_)
SumPaces(s) ==
  IF s = <<>> THEN RatOfInt(0)
  ELSE RatAdd(Head(s).pace_min_km, SumPaces(Tail(s)))

\* groupby("category")["pace_min_km"].mean(): NaN is skipped, an all-NaN
\* group has mean NaN
CategoryMean(rows, cat) ==
  LET IsIn(r) == r.category = cat /\ IsNum(r.pace_min_km)
      in      == SelectSeq(rows, IsIn)
  IN  IF in = <<>> THEN NA
      ELSE RatDiv(SumPaces(in), RatOfInt(Len(in)))

\* cat_pace after sort_values("pace_min_km") and dropna: ascending mean, ties
\* in group order
RECURSIVE SortBars(_)
SortBars(bars) ==
  IF bars = {} THEN <<>>
  ELSE LET first == CHOOSE b \in bars : \A c \in bars :
                      \/ RatLess(b.pace_min_km, c.pace_min_km)
                      \/ (b.pace_min_km = c.pace_min_km /\ b.rank <= c.rank)
       IN  <<first>> \o SortBars(bars \ {first})

NoCategoryChart(kind) == [kind |-> kind, rows |-> <<>>, bars |-> <<>>]

\* pace_by_category: [kind, rows, bars]; rows are df_in's category and pace
\* columns, bars the categories drawn with their mean pace and label
PaceByCategory(t) ==
  IF IsEmptyDF(t) THEN NoCategoryChart("placeholder")
  ELSE IF ChartDurationCol(t.cols) = "none" \/ "distance_km" \notin t.cols
       THEN NoCategoryChart("placeholder")
  ELSE LET rows == [i \in 1..Len(t.rows) |->
                      CategoryRow(t.rows[i], ChartDurationCol(t.cols))]
           cats == {i \in 1..Len(CategoryOrder) :
                      \E j \in 1..Len(rows) : rows[j].category = CategoryOrder[i]}
           bars == {[category    |-> CategoryOrder[i],
                     rank        |-> i,
                     pace_min_km |-> CategoryMean(rows, CategoryOrder[i]),
                     text        |-> FormatPaceMinutes(
                                       CategoryMean(rows, CategoryOrder[i]))] :
                      i \in {k \in cats : IsNum(CategoryMean(rows, CategoryOrder[k]))}}
       IN  IF bars = {} THEN [kind |-> "placeholder", rows |-> rows, bars |-> <<>>]
           ELSE [kind |-> "figure", rows |-> rows, bars |-> SortBars(bars)]

\* ------------------------------------------------ app.py: KPIs, charts
RECURSIVE SumCells(_, _)
\* Series.sum(): NaN is skipped
SumCells(rows, col) ==
  IF rows = <<>> THEN RatOfInt(0)
  ELSE RatAdd(NumericOrZero(Head(rows)[col]), SumCells(Tail(rows), col))

\* df_filtered[col].sum() if col in df_filtered.columns else 0
ColumnTotal(t, col) == IF col \in t.cols THEN SumCells(t.rows, col) ELSE RatOfInt(0)

\* pace_mean = total_time_min / total_km if total_km > 0 else None
PaceMean(t) ==
  IF RatGtZero(ColumnTotal(t, "distance_km"))
  THEN RatDiv(ColumnTotal(t, "duration_min"), ColumnTotal(t, "distance_km"))
  ELSE NA

\* KPI "Pace médio": format_pace_minutes(pace_mean) if pace_mean else "N/A"
Kpis(t) ==
  [total_runs     |-> Len(t.rows),
   total_km       |-> ColumnTotal(t, "distance_km"),
   total_time_min |-> ColumnTotal(t, "duration_min"),
   pace_mean      |-> PaceMean(t),
   pace_text      |-> FormatPaceMinutes(PaceMean(t))]

NoKpis ==
  [total_runs |-> 0, total_km |-> RatOfInt(0), total_time_min |-> RatOfInt(0),
   pace_mean |-> NA, pace_text |-> Str("N/A")]

\* nothing below the filters ran
NoCharts ==
  [kpis |-> NoKpis, fig1 |-> "not_run", fig3 |-> "not_run", fig2 |-> "not_run",
   fig_km |-> "not_run", fig_monthly |-> "not_run",
   fig_cat |-> NoCategoryChart("not_run")]

\* a helper runs when none before it raised
Ran(kind) == kind \notin {"raises", "not_run"}

\* The script from the KPIs to the last chart, with every date filter on
\* "Todos" (df_filtered = df): the helpers in the order the script calls
\* them; an exception ends the run.
ChartsOf(fin) ==
  IF fin.status # "table" THEN NoCharts
  ELSE LET t  == fin.df
           k1 == CreateDistanceOverTime(t)
           k3 == IF Ran(k1) THEN CreatePaceTrend(t) ELSE "not_run"
           k2 == IF Ran(k3) THEN CreateActivityTypePie(t) ELSE "not_run"
           kk == IF Ran(k2) THEN TotalRunsByKm(t) ELSE "not_run"
           km == IF Ran(kk) THEN CreateMonthlyStats(t) ELSE "not_run"
       IN  [kpis |-> Kpis(t), fig1 |-> k1, fig3 |-> k3, fig2 |-> k2,
            fig_km |-> kk, fig_monthly |-> km,
            fig_cat |-> IF Ran(km) THEN PaceByCategory(t)
                        ELSE NoCategoryChart("not_run")]

\* ---------------------------------------------------------------- inputs
SecretNames == {"STRAVA_CLIENT_ID", "STRAVA_CLIENT_SECRET", "STRAVA_REFRESH_TOKEN"}

\* what the token endpoint can answer to the POST
TokenResponses == {"ok", "ok_without_token", "http_error", "network_error"}

\* raw activities the upstream pages are made of
GoodRun ==
  [id |-> 1, type |-> "Run", start_date_local |-> "2024-01-01T06:00:00",
   distance |-> 5000, moving_time |-> 1800]
StartDateOnly ==
  [id |-> 2, distance |-> 5000, moving_time |-> 1800,
   start_date |-> "2024-01-01T06:00:00"]
ElapsedTimeOnly ==
  [id |-> 3, type |-> "Ride", start_date_local |-> "2024-02-10T07:30:00",
   distance |-> 1449, elapsed_time |-> 600]
PageRecords == {GoodRun, StartDateOnly, ElapsedTimeOnly}

\* a page request fails (timeout, non-2xx, bad JSON) or returns up to
\* per_page records
PageResponses(pp) ==
  {[ok |-> FALSE, items |-> <<>>]}
    \cup {[ok |-> TRUE, items |-> it] : it \in SeqsUpTo(PageRecords, pp)}

\* seconds between two script runs
Elapsed == {1, TTL}

\* sidebar inputs tried in a session of several runs
SessionPerPage == {1}
SessionMaxPages == {1, 2}

\* raw records the normaliser is tried on: every distance with every
\* duration, and the records that use other key names or lack a date
DistanceChoices == {0, 40, 50, 1449, 5000}
MovingTimeChoices == {0, 600, 1800}
NumericRecords ==
  {[id |-> 1, type |-> "Run", start_date_local |-> "2024-01-01T06:00:00",
    distance |-> m, moving_time |-> t] : m \in DistanceChoices, t \in MovingTimeChoices}
AlreadyNormalized ==
  [id |-> 4, sport_type |-> "Ride", date |-> "2024-02-10T07:30:00",
   distance_km |-> 5, duration_min |-> 30]
BadDate ==
  [id |-> 5, type |-> "Run", start_date_local |-> "n/a",
   distance |-> 5000, moving_time |-> 1800]
NoDate == [id |-> 6, type |-> "Run", distance |-> 5000, moving_time |-> 1800]
NormRecords ==
  NumericRecords \cup {StartDateOnly, ElapsedTimeOnly, AlreadyNormalized, BadDate, NoDate}

\* activities.csv as pd.read_csv returns it
CsvNormalized ==
  [cols |-> {"id", "type", "date", "distance_km", "duration_min", "pace_min_km"},
   rows |-> << [id |-> RatOfInt(1), type |-> Str("Run"),
                date |-> Str("2024-01-01T06:00:00"), distance_km |-> RatOfInt(5),
                duration_min |-> RatOfInt(30), pace_min_km |-> RatOfInt(6)],
               [id |-> RatOfInt(2), type |-> Str("Run"),
                date |-> Str("2024-02-10T07:30:00"), distance_km |-> RatOfInt(5),
                duration_min |-> RatOfInt(0), pace_min_km |-> RatOfInt(0)] >>]
CsvRawNames ==
  [cols |-> {"id", "sport_type", "start_date", "distance", "moving_time"},
   rows |-> << [id |-> RatOfInt(1), sport_type |-> Str("Ride"),
                start_date |-> Str("2024-01-01T06:00:00"),
                distance |-> RatOfInt(1449), moving_time |-> RatOfInt(600)],
               [id |-> RatOfInt(2), sport_type |-> Str("Ride"),
                start_date |-> NA,
                distance |-> RatOfInt(5000), moving_time |-> RatOfInt(1800)] >>]
CsvNoDuration ==
  [cols |-> {"id", "date", "distance_km"},
   rows |-> << [id |-> RatOfInt(1), date |-> Str("2024-01-01T06:00:00"),
                distance_km |-> RatOfInt(5)] >>]
CsvFiles ==
  {[state |-> "absent", table |-> EmptyDF],
   [state |-> "unreadable", table |-> EmptyDF],
   [state |-> "readable", table |-> CsvNormalized],
   [state |-> "readable", table |-> CsvRawNames],
   [state |-> "readable", table |-> CsvNoDuration]}

\* ----------------------------------------------------------------- state
VARIABLES
  pc,             \* "idle" between script runs, "renew", "fetch"; "norm_*"
  runs,           \* script runs started
  now,            \* wall clock, seconds
  cache,          \* st.cache_data entries of load_cached_activities
  csvFile,        \* OUT_DIR / "activities.csv"
  per_page,       \* sidebar inputs of the current run
  max_pages,
  creds,          \* what get_strava_credentials found in this run
  tokenResp,      \* the token endpoint's answer in this run, "none" if not asked
  tokenPosts,     \* POSTs to TOKEN_URL in this run
  access_token,   \* "" is None
  page,           \* loop variable of fetch_all_activities
  activities,     \* accumulated raw records
  reqLog,         \* GETs to ACTIVITIES_URL in this run, with their answers
  transformCalls, \* calls of transform_activities in this run
  outcome,        \* where load_activities returned
  df,             \* the table the run loaded
  final,          \* AppTable(df)
  lastRenewal,    \* when and under which sidebar inputs the latest token
                  \* renewal succeeded; at = -1 before the first
  seen,           \* failure cause and returned value, per finished load_activities
  charts          \* KPIs and chart helper results of the run, ChartsOf(final)

vars ==
  <<pc, runs, now, cache, csvFile, per_page, max_pages, creds, tokenResp,
    tokenPosts, access_token, page, activities, reqLog, transformCalls, outcome,
    df, final, lastRenewal, seen, charts>>

NoCreds == [read |-> FALSE, present |-> {}]
NoFinal == [status |-> "none", df |-> EmptyDF]

Init ==
  /\ pc = "idle"
  /\ runs = 0
  /\ now = 0
  /\ cache = {}
  /\ csvFile \in CsvFiles
  /\ per_page = 1
  /\ max_pages = 1
  /\ creds = NoCreds
  /\ tokenResp = "none"
  /\ tokenPosts = 0
  /\ access_token = ""
  /\ page = 1
  /\ activities = <<>>
  /\ reqLog = <<>>
  /\ transformCalls = 0
  /\ outcome = "none"
  /\ df = EmptyDF
  /\ final = NoFinal
  /\ lastRenewal = [at |-> -1, key |-> <<0, 0>>]
  /\ seen = {}
  /\ charts = NoCharts

\* --------------------------------------------------------------- helpers
\* st.cache_data(ttl=3600): the unexpired entries stored under these arguments
CacheLookup(c, key, t) == {e \in c : e.key = key /\ t - e.ts < TTL}

\* the else branch of the loading block: read_csv, or an empty table when the
\* file is absent or read_csv raises
ReadCsv(file) == IF file.state = "readable" THEN file.table ELSE EmptyDF

\* any() in place of all()
AnyCredential(present) == present # {}
\* if not all([CLIENT_ID, CLIENT_SECRET, REFRESH_TOKEN])
CredentialsComplete(present) == present = SecretNames

\* data.get("access_token") after raise_for_status(); None after an exception
TokenOf(resp) == IF resp = "ok" THEN "tok" ELSE ""
\* if not access_token
HasToken(tok) == tok # ""

\* the page loop with one of its two break statements missing
BreaksOnErrorOnly(resp) == ~resp.ok
BreaksOnEmptyOnly(resp) == resp.ok /\ resp.items = <<>>
\* if not page_items: break, and the break of the except clause
BreaksLoop(resp) == ~resp.ok \/ resp.items = <<>>
\* activities.extend(page_items)
Extended(acts, resp) == IF resp.ok THEN acts \o resp.items ELSE acts
\* range(1, max_pages + 2)
OnePageTooMany(p, mp) == p > mp
\* for page in range(1, max_pages + 1): p was the last value
LastPage(p, mp) == p >= mp

ResetRun ==
  /\ creds' = NoCreds
  /\ tokenResp' = "none"
  /\ tokenPosts' = 0
  /\ access_token' = ""
  /\ page' = 1
  /\ activities' = <<>>
  /\ reqLog' = <<>>
  /\ transformCalls' = 0

\* load_activities returned v: load_cached_activities stores it, and the
\* script goes on to the column treatment
Returns(v, out, cause) ==
  /\ outcome' = out
  /\ df' = v
  /\ final' = AppTable(v)
  /\ cache' = cache \cup {[key |-> <<per_page, max_pages>>, val |-> v, ts |-> now]}
  /\ seen' = IF cause = "none" THEN seen
             ELSE seen \cup {[cause |-> cause, value |-> v]}
  /\ pc' = "idle"

\* transform_activities raised: nothing is cached and the script run ends
\* with the exception
Raises ==
  /\ outcome' = "raised"
  /\ df' = EmptyDF
  /\ final' = [status |-> "exception", df |-> EmptyDF]
  /\ pc' = "idle"
  /\ UNCHANGED <<cache, seen>>

\* load_activities from "if not activities" on, with what the fetch returned
AfterFetch(acts, cause) ==
  IF acts = <<>>
  THEN /\ Returns(EmptyDF, "no_activities", cause)
       /\ UNCHANGED transformCalls
  ELSE /\ transformCalls' = transformCalls + 1
       /\ IF TransformActivities(acts).raised
          THEN Raises
          ELSE Returns(TransformActivities(acts).df, "transformed", "none")

\* --------------------------------------------------------------- actions
\* a run without the button that starts the live fetch itself when
\* activities.csv gives no table
RunCachedFetchesOnMiss(dt) ==
  /\ pc = "idle"
  /\ runs < MaxRuns
  /\ runs' = runs + 1
  /\ now' = now + dt
  /\ ResetRun
  /\ outcome' = "csv"
  /\ df' = ReadCsv(csvFile)
  /\ IF IsEmptyDF(ReadCsv(csvFile))
     THEN /\ pc' = "renew"
          /\ final' = NoFinal
     ELSE /\ pc' = pc
          /\ final' = AppTable(ReadCsv(csvFile))
  /\ UNCHANGED <<cache, csvFile, per_page, max_pages, lastRenewal, seen>>
  /\ charts' = ChartsOf(final')

\* A script run without the button: the table comes from activities.csv.
RunCached(dt) ==
  /\ pc = "idle"
  /\ runs < MaxRuns
  /\ runs' = runs + 1
  /\ now' = now + dt
  /\ ResetRun
  /\ outcome' = "csv"
  /\ df' = ReadCsv(csvFile)
  /\ final' = AppTable(ReadCsv(csvFile))
  /\ UNCHANGED <<pc, cache, csvFile, per_page, max_pages, lastRenewal, seen>>
  /\ charts' = ChartsOf(final')

\* A script run with "Buscar/Atualizar dados" pressed: st.cache_data.clear(),
\* then load_cached_activities(per_page, max_pages).
RunRefresh(pp, mp, dt) ==
  /\ pc = "idle"
  /\ runs < MaxRuns
  /\ runs' = runs + 1
  /\ now' = now + dt
  /\ per_page' = pp
  /\ max_pages' = mp
  /\ ResetRun
  /\ LET cleared == {}
         hit     == CacheLookup(cleared, <<pp, mp>>, now + dt)
     IN  IF hit # {}
         THEN /\ outcome' = "cache_hit"
              /\ df' = (CHOOSE e \in hit : TRUE).val
              /\ final' = AppTable((CHOOSE e \in hit : TRUE).val)
              /\ cache' = cleared
              /\ pc' = "idle"
         ELSE /\ outcome' = "none"
              /\ df' = EmptyDF
              /\ final' = NoFinal
              /\ cache' = cleared
              /\ pc' = "renew"
  /\ UNCHANGED <<csvFile, lastRenewal, seen>>
  /\ charts' = ChartsOf(final')

\* load_activities up to the call of fetch_all_activities: renew_access_token
\* reads the secrets and, if all three are there, POSTs once.
RenewToken(present, resp) ==
  /\ pc = "renew"
  /\ creds' = [read |-> TRUE, present |-> present]
  /\ IF ~CredentialsComplete(present)
     THEN /\ UNCHANGED <<tokenResp, tokenPosts, access_token, lastRenewal>>
          /\ Returns(EmptyDF, "auth_failed", "auth_failure")
     ELSE /\ tokenPosts' = tokenPosts + 1
          /\ lastRenewal' = IF HasToken(TokenOf(resp))
                            THEN [at |-> now, key |-> <<per_page, max_pages>>]
                            ELSE lastRenewal
          /\ tokenResp' = resp
          /\ access_token' = TokenOf(resp)
          /\ IF HasToken(TokenOf(resp))
             THEN /\ pc' = "fetch"
                  /\ UNCHANGED <<outcome, df, final, cache, seen>>
             ELSE Returns(EmptyDF, "auth_failed", "auth_failure")
  /\ UNCHANGED <<runs, now, csvFile, per_page, max_pages, page, activities,
                 reqLog, transformCalls>>
  /\ charts' = ChartsOf(final')

\* One iteration of the page loop; on the last one, the rest of
\* load_activities and of the script run.
FetchPage(resp) ==
  /\ pc = "fetch"
  /\ reqLog' = Append(reqLog, [page |-> page, resp |-> resp])
  /\ activities' = Extended(activities, resp)
  /\ IF BreaksLoop(resp) \/ LastPage(page, max_pages)
     THEN /\ AfterFetch(Extended(activities, resp),
                        IF reqLog = <<>> /\ ~resp.ok THEN "fetch_failure"
                        ELSE IF reqLog = <<>> /\ resp.items = <<>> THEN "zero_activities"
                        ELSE "none")
          /\ UNCHANGED page
     ELSE /\ page' = page + 1
          /\ UNCHANGED <<pc, outcome, df, final, cache, seen, transformCalls>>
  /\ UNCHANGED <<runs, now, csvFile, per_page, max_pages, creds, tokenResp,
                 tokenPosts, access_token, lastRenewal>>
  /\ charts' = ChartsOf(final')

Next ==
  \/ \E dt \in Elapsed : RunCached(dt)
  \/ \E pp \in SessionPerPage, mp \in SessionMaxPages, dt \in Elapsed :
       RunRefresh(pp, mp, dt)
  \/ \E present \in SUBSET SecretNames, resp \in TokenResponses :
       RenewToken(present, resp)
  \/ \E resp \in PageResponses(per_page) : FetchPage(resp)

\* a session of script runs
Spec == Init /\ [][Next]_vars

\* ------------------------------------------- one call of load_activities
InitLoad ==
  /\ pc = "renew"
  /\ runs = 0
  /\ now = 0
  /\ cache = {}
  /\ csvFile = [state |-> "absent", table |-> EmptyDF]
  /\ per_page \in 1..MaxPerPage
  /\ max_pages \in 1..MaxPagesCap
  /\ creds = NoCreds
  /\ tokenResp = "none"
  /\ tokenPosts = 0
  /\ access_token = ""
  /\ page = 1
  /\ activities = <<>>
  /\ reqLog = <<>>
  /\ transformCalls = 0
  /\ outcome = "none"
  /\ df = EmptyDF
  /\ final = NoFinal
  /\ lastRenewal = [at |-> -1, key |-> <<0, 0>>]
  /\ seen = {}
  /\ charts = NoCharts

NextLoad ==
  \/ \E present \in SUBSET SecretNames, resp \in TokenResponses :
       RenewToken(present, resp)
  \/ \E resp \in PageResponses(per_page) : FetchPage(resp)

SpecLoad == InitLoad /\ [][NextLoad]_vars

\* ---------------------- transform_activities and the column treatment
InitNorm ==
  /\ pc = "norm_in"
  /\ runs = 0
  /\ now = 0
  /\ cache = {}
  /\ csvFile = [state |-> "absent", table |-> EmptyDF]
  /\ per_page = 1
  /\ max_pages = 1
  /\ creds = NoCreds
  /\ tokenResp = "none"
  /\ tokenPosts = 0
  /\ access_token = ""
  /\ page = 1
  /\ activities \in SeqsUpTo(NormRecords, MaxActs)
  /\ reqLog = <<>>
  /\ transformCalls = 0
  /\ outcome = "none"
  /\ df = EmptyDF
  /\ final = NoFinal
  /\ lastRenewal = [at |-> -1, key |-> <<0, 0>>]
  /\ seen = {}
  /\ charts = NoCharts

\* transform_activities(activities), then the script's column treatment
Normalize ==
  /\ pc = "norm_in"
  /\ pc' = "norm_done"
  /\ transformCalls' = transformCalls + 1
  /\ outcome' = IF TransformActivities(activities).raised THEN "raised"
                ELSE "transformed"
  /\ df' = TransformActivities(activities).df
  /\ final' = IF TransformActivities(activities).raised
              THEN [status |-> "exception", df |-> EmptyDF]
              ELSE AppTable(TransformActivities(activities).df)
  /\ UNCHANGED <<runs, now, cache, csvFile, per_page, max_pages, creds, tokenResp,
                 tokenPosts, access_token, page, activities, reqLog, lastRenewal,
                 seen>>
  /\ charts' = ChartsOf(final')

NextNorm == Normalize

SpecNorm == InitNorm /\ [][NextNorm]_vars

\* ------------------------------------------------------ pace_by_category
\* tables the helper is tried on: distances around the category thresholds,
\* in tenths of a kilometre, with two durations; a blank distance reads as 0
CatDistanceTenths == {0, 20, 49, 50, 70, 99, 100, 150, 209, 210, 250}
CatDurations == {30, 60}
CatRows ==
  {[distance_km |-> Rat(d, 10), duration_min |-> RatOfInt(m)] :
     d \in CatDistanceTenths, m \in CatDurations}
    \cup {[distance_km |-> NA, duration_min |-> RatOfInt(30)]}
CatTables ==
  {[cols |-> {"distance_km", "duration_min"}, rows |-> r] :
     r \in SeqsUpTo(CatRows, MaxActs) \ {<<>>}}
    \cup {EmptyDF}

InitCat ==
  /\ pc = "cat_in"
  /\ runs = 0
  /\ now = 0
  /\ cache = {}
  /\ csvFile = [state |-> "absent", table |-> EmptyDF]
  /\ per_page = 1
  /\ max_pages = 1
  /\ creds = NoCreds
  /\ tokenResp = "none"
  /\ tokenPosts = 0
  /\ access_token = ""
  /\ page = 1
  /\ activities = <<>>
  /\ reqLog = <<>>
  /\ transformCalls = 0
  /\ outcome = "none"
  /\ df \in CatTables
  /\ final = NoFinal
  /\ lastRenewal = [at |-> -1, key |-> <<0, 0>>]
  /\ seen = {}
  /\ charts = NoCharts

\* fig_cat = pace_by_category(df)
CategoryPace ==
  /\ pc = "cat_in"
  /\ pc' = "cat_done"
  /\ charts' = [charts EXCEPT !.fig_cat = PaceByCategory(df)]
  /\ UNCHANGED <<runs, now, cache, csvFile, per_page, max_pages, creds, tokenResp,
                 tokenPosts, access_token, page, activities, reqLog,
                 transformCalls, outcome, df, final, lastRenewal, seen>>

NextCat == CategoryPace

SpecCat == InitCat /\ [][NextCat]_vars

\* ================================================================ claims
IsNonEmptyPage(e) == e.resp.ok /\ e.resp.items # <<>>
IsEmptyPage(e) == e.resp.ok /\ e.resp.items = <<>>
IsFailedPage(e) == ~e.resp.ok

RECURSIVE ConcatItems(_)
\* the records of the logged pages, in request order
ConcatItems(log) ==
  IF log = <<>> THEN <<>> ELSE Head(log).resp.items \o ConcatItems(Tail(log))

NonEmptyPages == Cardinality({i \in 1..Len(reqLog) : IsNonEmptyPage(reqLog[i])})

\* fetch_all_activities has returned to load_activities
FetchReturned == outcome \in {"no_activities", "transformed", "raised"}

\* C1 as stated: when the source's pages 1..k are non-empty and page k+1 is
\* empty (k < max_pages), exactly k pages are requested.
C1_ExactlyKRequests ==
  (FetchReturned /\ reqLog # <<>> /\ IsEmptyPage(reqLog[Len(reqLog)]))
    => Len(reqLog) = NonEmptyPages

\* C1 amended: pages are requested in the order 1, 2, ...; no page is requested
\* after an empty one; the fetch does not stop after a non-empty page below
\* max_pages; so with pages 1..k non-empty and page k+1 empty (k < max_pages)
\* exactly k+1 pages are requested, the empty page last, and the result is
\* exactly the records of pages 1..k.
C1_StopsAfterFirstEmptyPage ==
  LET n == Len(reqLog)
  IN  /\ \A i \in 1..n : reqLog[i].page = i
      /\ \A i \in 1..(n - 1) : ~IsEmptyPage(reqLog[i])
      /\ (FetchReturned /\ n >= 1 /\ IsNonEmptyPage(reqLog[n])) => n = max_pages
      /\ (FetchReturned /\ n >= 1 /\ IsEmptyPage(reqLog[n])) =>
            /\ n = NonEmptyPages + 1
            /\ n <= max_pages
            /\ activities = ConcatItems(SubSeq(reqLog, 1, n - 1))

\* pages [1 record, 1 record, empty] with max_pages = 3: three requests, two records
C1_Witness ==
  /\ FetchReturned
  /\ Len(reqLog) = 3
  /\ IsNonEmptyPage(reqLog[1]) /\ IsNonEmptyPage(reqLog[2]) /\ IsEmptyPage(reqLog[3])
  /\ Len(activities) = 2

\* C2: one call never issues more than max_pages page requests; when every
\* page is non-empty and no request fails it issues exactly pages
\* 1..max_pages and then stops.
C2_AtMostMaxPagesRequests ==
  LET n == Len(reqLog)
  IN  /\ n <= max_pages
      /\ pc = "fetch" => n < max_pages
      /\ (FetchReturned /\ \A i \in 1..n : IsNonEmptyPage(reqLog[i])) =>
            /\ n = max_pages
            /\ \A i \in 1..n : reqLog[i].page = i
            /\ pc = "idle"

C2_Witness ==
  /\ FetchReturned
  /\ max_pages >= 2
  /\ Len(reqLog) = max_pages
  /\ \A i \in 1..Len(reqLog) : IsNonEmptyPage(reqLog[i])

\* C3: when the request for page k fails after pages 1..k-1 succeeded
\* non-empty, no further page is requested, page k is not requested again,
\* the fetch returns the records of pages 1..k-1 in order (none when k = 1),
\* and for k > 1 load_activities goes on to transform them instead of taking
\* its "no activities" exit.
C3_PartialFetch ==
  LET n == Len(reqLog)
  IN  /\ \A i \in 1..(n - 1) : ~IsFailedPage(reqLog[i])
      /\ \A i, j \in 1..n : i # j => reqLog[i].page # reqLog[j].page
      /\ (n >= 1 /\ IsFailedPage(reqLog[n])) =>
            /\ FetchReturned
            /\ pc = "idle"
            /\ reqLog[n].page = n
            /\ activities = ConcatItems(SubSeq(reqLog, 1, n - 1))
            /\ Len(activities) >= n - 1
            /\ n = 1 => (activities = <<>> /\ outcome = "no_activities")
            /\ n > 1 => (outcome # "no_activities" /\ transformCalls = 1)

C3_Witness ==
  /\ Len(reqLog) = 3
  /\ IsFailedPage(reqLog[3])
  /\ Len(activities) = 2
  /\ outcome = "transformed"

AuthFailed ==
  /\ creds.read
  /\ creds.present # SecretNames \/ tokenResp \in {"http_error", "network_error"}

\* C4: with a secret missing no token request is sent; with the secrets
\* missing or the single token request failed, the token request is not
\* repeated, no page is requested, transform_activities is not run and
\* load_activities returns an empty table.
C4_AuthFailureIsFatal ==
  /\ tokenPosts <= 1
  /\ (creds.read /\ creds.present # SecretNames) =>
        (tokenPosts = 0 /\ tokenResp = "none")
  /\ AuthFailed =>
        /\ pc = "idle"
        /\ reqLog = <<>>
        /\ transformCalls = 0
        /\ outcome = "auth_failed"
        /\ IsEmptyDF(df)

C4_Witness ==
  /\ creds.read
  /\ creds.present = SecretNames
  /\ tokenResp = "http_error"
  /\ tokenPosts = 1
  /\ pc = "idle"

\* the ids of a table's rows, in order
RowIds(t) == [i \in 1..Len(t.rows) |-> t.rows[i]["id"]]

\* C5 as stated: after a refresh run whose live fetch succeeded, the cache
\* file holds the table that fetch produced (so that later runs without a
\* refresh load it).
C5_RefreshWritesCacheFile ==
  (pc = "idle" /\ outcome = "transformed") =>
    /\ csvFile.state = "readable"
    /\ RowIds(csvFile.table) = RowIds(df)

HasPositive(row, col) == col \in DOMAIN row /\ CellGtZero(row[col])

\* C6 as stated: every row of the table handed to the KPIs and charts has a
\* non-null date, distance_km > 0 and duration_min > 0, whether the table was
\* fetched or read from the cache file.
C6_FinalRowsAreValid ==
  final.status = "table" =>
    \A i \in 1..Len(final.df.rows) :
      LET row == final.df.rows[i]
      IN  /\ "date" \in DOMAIN row /\ ~IsNA(row["date"])
          /\ HasPositive(row, "distance_km")
          /\ HasPositive(row, "duration_min")

Transformed == pc = "norm_done" /\ outcome = "transformed" /\ activities # <<>>

NearestTenth(tenths, n, d) ==
  LET t    == tenths.num * (10 \div tenths.den)
      diff == Abs(t * d - 10 * n)
  IN  /\ 10 % tenths.den = 0
      /\ 2 * diff <= d
      /\ 2 * diff = d => t % 2 = 0

FirstKey(act, keys) == FirstIn(keys, DOMAIN act)

\* C8 as stated, for raw records: each field comes from the first accepted
\* key the record carries, so a record with any accepted date key has that
\* date, and likewise for distance, duration and type.
C8_FirstMatchWins ==
  Transformed =>
    \A i \in 1..Len(df.rows) :
      LET act == activities[i]
          row == df.rows[i]
          dk  == FirstKey(act, <<"date", "start_date", "start_date_local">>)
          mk  == FirstKey(act, <<"distance_km", "distance">>)
          tk  == FirstKey(act, <<"duration_min", "moving_time", "elapsed_time", "duration">>)
          yk  == FirstKey(act, <<"type", "sport_type", "activity_type">>)
      IN  /\ (dk # "none" /\ Parseable(act[dk])) => row.date = ParseTimestamp(act[dk])
          /\ mk = "distance_km" => row.distance_km = CellRound1(RatOfInt(act[mk]))
          /\ mk = "distance" => row.distance_km = CellRound1(Rat(act[mk], 1000))
          /\ tk = "duration_min" => row.duration_min = RatOfInt(act[tk])
          /\ tk \notin {"none", "duration_min"} => row.duration_min = Rat(act[tk], 60)
          /\ yk # "none" => row.type = Str(act[yk])

\* C9 as stated: an auth failure, a fetch failure on the first page and a
\* fetch that found no activity give load_activities return values that
\* differ from one another.
C9_OutcomesDistinguishable ==
  \A a, b \in seen : a.cause # b.cause => a.value # b.value

\* C10 as stated (first half): after a successful token renewal, a run with
\* the same sidebar inputs sends the next renewal request only when the
\* cache lifetime has passed.
C10_OneRenewalPerLifetime ==
  [][(/\ tokenPosts' = tokenPosts + 1
      /\ lastRenewal.at >= 0
      /\ lastRenewal.key = <<per_page, max_pages>>) => now - lastRenewal.at >= TTL]_vars

\* C11: a run without the button that finds activities.csv absent or
\* unreadable loads an empty table, does not end with an exception, and
\* sends no token request and no page request; the script stops and waits
\* for the next run.
C11_CacheMissStartsNoFetch ==
  (outcome = "csv" /\ csvFile.state # "readable") =>
    /\ IsEmptyDF(df)
    /\ final.status = "stopped_empty"
    /\ pc = "idle"
    /\ ~creds.read
    /\ tokenPosts = 0
    /\ reqLog = <<>>
    /\ transformCalls = 0

C11_Witness ==
  /\ outcome = "csv"
  /\ csvFile.state = "unreadable"
  /\ final.status = "stopped_empty"
  /\ runs = 2

\* C12 as stated: no aggregation helper raises on the table the script hands
\* it, whether the table is empty or lacks a column the helper reads; a call
\* the script makes ends in a result, and so does each helper tried on the
\* table by itself.
C12_HelpersNeverRaise ==
  /\ "raises" \notin {charts.fig1, charts.fig3, charts.fig2, charts.fig_monthly,
                      charts.fig_cat.kind}
  /\ final.status = "table" =>
       "raises" \notin {CreateDistanceOverTime(final.df), CreatePaceTrend(final.df),
                        CreateActivityTypePie(final.df),
                        CreateMonthlyStats(final.df), PaceByCategory(final.df).kind}

\* the distance pace_by_category categorises for row i of df, as the integer
\* pair n/d (a blank cell is 0)
CatNum(i) == IF IsNum(df.rows[i].distance_km) THEN df.rows[i].distance_km.num ELSE 0
CatDen(i) == IF IsNum(df.rows[i].distance_km) THEN df.rows[i].distance_km.den ELSE 1
CatOf(i) == charts.fig_cat.rows[i].category

\* C13: categorize_distance gives every distance exactly one of the four
\* categories, by the thresholds 5, 10 and 21 km with the boundary in the upper
\* category: d < 5 light, 5 <= d < 10 short, 10 <= d < 21 medium, d >= 21
\* half-marathon+; so 2, 7, 15, 25 km are light, short, medium, half-marathon+
\* and 5, 10, 21 km are short, medium, half-marathon+.
C13_CategoryThresholds ==
  (pc = "cat_done" /\ ~IsEmptyDF(df)) =>
    /\ Len(charts.fig_cat.rows) = Len(df.rows)
    /\ \A i \in 1..Len(df.rows) :
         /\ CatOf(i) \in {"Treino leve (< 5km)", "Curta (5-10km)",
                          "Médio (10-21km)", "Meia maratona (> 21km)"}
         /\ CatOf(i) = "Treino leve (< 5km)" <=> CatNum(i) < 5 * CatDen(i)
         /\ CatOf(i) = "Curta (5-10km)" <=>
              (5 * CatDen(i) <= CatNum(i) /\ CatNum(i) < 10 * CatDen(i))
         /\ CatOf(i) = "Médio (10-21km)" <=>
              (10 * CatDen(i) <= CatNum(i) /\ CatNum(i) < 21 * CatDen(i))
         /\ CatOf(i) = "Meia maratona (> 21km)" <=> 21 * CatDen(i) <= CatNum(i)
         /\ df.rows[i].distance_km = RatOfInt(2) => CatOf(i) = "Treino leve (< 5km)"
         /\ df.rows[i].distance_km = RatOfInt(7) => CatOf(i) = "Curta (5-10km)"
         /\ df.rows[i].distance_km = RatOfInt(15) => CatOf(i) = "Médio (10-21km)"
         /\ df.rows[i].distance_km = RatOfInt(25) => CatOf(i) = "Meia maratona (> 21km)"
         /\ df.rows[i].distance_km = RatOfInt(5) => CatOf(i) = "Curta (5-10km)"
         /\ df.rows[i].distance_km = RatOfInt(10) => CatOf(i) = "Médio (10-21km)"
         /\ df.rows[i].distance_km = RatOfInt(21) => CatOf(i) = "Meia maratona (> 21km)"

\* a table with the boundary distances 21 km and 5 km has been categorised
C13_Witness ==
  /\ pc = "cat_done"
  /\ Len(df.rows) = 2
  /\ df.rows[1].distance_km = RatOfInt(21)
  /\ df.rows[2].distance_km = RatOfInt(5)
  /\ CatOf(1) = "Meia maratona (> 21km)"
  /\ CatOf(2) = "Curta (5-10km)"

\* the activities whose rows the column treatment keeps, in table order, each
\* with its duration and distance before any rounding
IsKept(e) == e.kept
KeptUnrounded ==
  SelectSeq([i \in 1..Len(activities) |->
               [raw  |-> RawRecordRow(activities[i]),
                kept |-> KeepRow(TreatRow(df.rows[i], df.cols))]],
            IsKept)

RECURSIVE SumUnrounded(_, _)
SumUnrounded(s, col) ==
  IF s = <<>> THEN RatOfInt(0)
  ELSE RatAdd(Head(s).raw[col], SumUnrounded(Tail(s), col))

\* C14 as stated: every pace the program computes comes from the unrounded
\* duration and the unrounded distance of the activity and is rounded once at
\* the end: pace_min_km of transform_activities, the per-row pace of
\* pace_by_category, and the mean-pace KPI (total duration over total
\* distance).
C14_PaceFromUnroundedEverywhere ==
  (Transformed /\ final.status = "table" /\ charts.fig_cat.kind # "not_run") =>
    /\ \A i \in 1..Len(df.rows) :
         df.rows[i]["pace_min_km"] =
           CellRound1(PaceOf(RawRecordRow(activities[i])))
    /\ Len(charts.fig_cat.rows) = Len(KeptUnrounded)
    /\ \A i \in 1..Len(KeptUnrounded) :
         charts.fig_cat.rows[i].pace_min_km =
           CellRound1(PaceOf(KeptUnrounded[i].raw))
    /\ charts.kpis.pace_text =
         FormatPaceMinutes(RatDiv(SumUnrounded(KeptUnrounded, "duration_min"),
                                  SumUnrounded(KeptUnrounded, "distance_km")))

====
